---- MODULE Spec2Model ----
(***************************************************************************)
(* Model of the fmt-runner formatting engine (src/src/core/engine.rs):     *)
(* Engine::check and Engine::format_and_write driving Engine::run over a   *)
(* list of files, with edit normalisation, edit application through        *)
(* Parser::apply_edit, diagnostics, outcomes and disk writes.              *)
(*                                                                         *)
(* Text is a sequence of one-byte characters; byte ranges are 0-based and  *)
(* half-open as in the code.  Option<T> is a sequence of length <= 1:      *)
(* None == <<>>, Some(x) == <<x>>.                                         *)
(***************************************************************************)
EXTENDS Integers, Sequences, FiniteSets, TLC

VARIABLES
    mode,            \* which entry point runs: "check" or "format_and_write"
    codes,           \* the codes argument: a sequence of source texts
    files,           \* the files argument: a sequence of paths
    pipeline,        \* Engine.pipeline: the passes, in insertion order
    pc,              \* position in the entry point
    i,               \* index (0-based) of the file the for loop is at
    index,           \* index (0-based) of the pass Engine::run is at
    state,           \* the file's ParseState
    original_source, \* Engine::run's original_source
    diagnostics,     \* Engine::run's diagnostics buffer
    outcomes,        \* the entry point's outcomes vector
    reports,         \* the RunReport of every file finished so far
    passlog,         \* the pass invocations of the file being run
    disk,            \* the file system: path -> contents
    writes,          \* every std::fs::write call made so far
    ret,             \* what the entry point returned to its caller
    calls,           \* the calls made on the engine before this one
    added            \* the passes handed to Pipeline::add_pass, in call order

vars == <<mode, codes, files, pipeline, pc, i, index, state, original_source,
          diagnostics, outcomes, reports, passlog, disk, writes, ret, calls, added>>

----------------------------------------------------------------------------
(* Bounds and input sets *)

MaxFiles == 2
MaxPasses == 2
MaxEdits == 2
MaxPos == 2

None == <<>>
Some(x) == <<x>>

\* Source texts handed to the engine in the codes argument.
Sources == { <<"a", "a">>, <<"a", "\n", "b">> }

\* Source texts a single pass is tried on.
PassSources == { <<>>, <<"a">>, <<"a", "\n", "b">> }

Paths == { "/x", "/y" }

\* Replacement texts a pass may put in an edit.
Contents == { <<>>, <<"X">> }

\* Every range over 0..MaxPos, and an inverted one.
Ranges == { r \in (0..MaxPos) \X (0..MaxPos) : r[1] <= r[2] } \cup { <<1, 0>> }

Edits == [ range : Ranges, content : Contents ]

SeqsUpTo(S, n) == UNION { [1..k -> S] : k \in 0..n }

EditLists == SeqsUpTo(Edits, MaxEdits)

----------------------------------------------------------------------------
(* core/result.rs *)

\* A message: its text and the values formatted into it.
Message(text, args) == [ text |-> text, args |-> args ]

Diagnostic(range, message, severity, source) ==
    [ range |-> range, message |-> message, severity |-> severity, source |-> source ]

FileFormatOutcome_new(path) ==
    [ path |-> path, changed |-> FALSE, diagnostics |-> <<>>, diff |-> None ]

----------------------------------------------------------------------------
(* parser/parse_state.rs *)

RECURSIVE compute_line_offsets_from(_, _)
compute_line_offsets_from(source, idx) ==
    IF idx > Len(source) THEN <<>>
    ELSE IF source[idx] = "\n"
         THEN <<idx>> \o compute_line_offsets_from(source, idx + 1)
         ELSE compute_line_offsets_from(source, idx + 1)

\* offsets.push(0); then idx + 1 for the 0-based idx of every newline byte,
\* which is the 1-based position of that byte.
compute_line_offsets(source) == <<0>> \o compute_line_offsets_from(source, 1)

ParseState_new(source) ==
    [ source |-> source, tree |-> None, line_offsets |-> compute_line_offsets(source) ]

has_tree(st) == st.tree # None

----------------------------------------------------------------------------
(* String::replace_range, as used at parser_core.rs:48-50 *)

\* It panics when the range is inverted or reaches past the end of the text.
RangeInBounds(text, start, end) == start <= end /\ end <= Len(text)

string_replace_range(text, start, end, replacement) ==
    SubSeq(text, 1, start) \o replacement \o SubSeq(text, end + 1, Len(text))

\* slice::binary_search on a sorted vector, between the 0-based indices lo
\* (included) and hi (excluded): Ok(index) when x is there, Err(index where
\* it would be inserted) otherwise.
RECURSIVE binary_search_in(_, _, _, _)
binary_search_in(v, x, lo, hi) ==
    IF lo >= hi THEN [ ok |-> FALSE, pos |-> lo ]
    ELSE LET mid == (lo + hi) \div 2
         IN  IF v[mid + 1] = x THEN [ ok |-> TRUE, pos |-> mid ]
             ELSE IF v[mid + 1] < x
                  THEN binary_search_in(v, x, mid + 1, hi)
                  ELSE binary_search_in(v, x, lo, mid)

binary_search(v, x) == binary_search_in(v, x, 0, Len(v))

Point(row, column) == [ row |-> row, column |-> column ]

\* byte_to_point without the clamp to the length of the source.
byte_to_point_no_clamp(st, byte) ==
    LET found == binary_search(st.line_offsets, byte)
    IN  IF found.ok THEN Point(found.pos, 0)
        ELSE IF found.pos = 0 THEN Point(0, byte)
        ELSE Point(found.pos - 1, byte - st.line_offsets[found.pos])

\* ParseState::byte_to_point
byte_to_point(st, byte) ==
    LET clamped == IF byte <= Len(st.source) THEN byte ELSE Len(st.source)
        found   == binary_search(st.line_offsets, clamped)
    IN  IF found.ok THEN Point(found.pos, 0)
        ELSE IF found.pos = 0 THEN Point(0, clamped)
        ELSE Point(found.pos - 1, clamped - st.line_offsets[found.pos])

\* ParseState::replace_range without refresh_line_offsets.
ParseState_replace_range_no_refresh(st, start, end, replacement) ==
    [ st EXCEPT !.source = string_replace_range(st.source, start, end, replacement) ]

\* ParseState::replace_range: the text is spliced, then the line index is
\* computed anew from it.
ParseState_replace_range(st, start, end, replacement) ==
    LET spliced == string_replace_range(st.source, start, end, replacement)
    IN  [ st EXCEPT !.source = spliced,
                    !.line_offsets = compute_line_offsets(spliced) ]

\* The longest text a ParseState driven by replace_range calls may hold.
MaxLen == 4

\* The replacement texts handed to replace_range.
ReplaceContents == { <<>>, <<"X">>, <<"\n">> }

----------------------------------------------------------------------------
(* parser/parser_core.rs *)

\* A tree is modelled by the text it was parsed from and by the number of
\* ts_parser.parse calls it took to get it, counting those behind the tree
\* it was reparsed from.
ParsesBehind(st) == IF st.tree = None THEN 0 ELSE st.tree[1].parses

Parser_parse(st) ==
    [ st EXCEPT !.tree = Some([ text |-> st.source, parses |-> ParsesBehind(st) + 1 ]) ]

\* reparse leaving the tree it was given.
Parser_reparse_stale(st) == st

Parser_reparse(st) ==
    [ st EXCEPT !.tree = Some([ text |-> st.source, parses |-> ParsesBehind(st) + 1 ]) ]

\* The InputEdit that apply_edit hands to tree.edit: every position is on
\* row 0 with the byte offset as its column.
Parser_input_edit(start_byte, old_end_byte, new_text) ==
    [ start_byte       |-> start_byte,
      old_end_byte     |-> old_end_byte,
      new_end_byte     |-> start_byte + Len(new_text),
      start_position   |-> Point(0, start_byte),
      old_end_position |-> Point(0, old_end_byte),
      new_end_position |-> Point(0, start_byte + Len(new_text)) ]

\* The text is spliced on state.source directly: line_offsets is not touched.
\* The tree is then edited and reparsed.
Parser_apply_edit(st, start_byte, old_end_byte, new_text) ==
    Parser_reparse(
        [ st EXCEPT !.source =
            string_replace_range(st.source, start_byte, old_end_byte, new_text) ])

----------------------------------------------------------------------------
(* pipeline/context.rs *)

FormatterContext_new(default_source) ==
    [ diagnostics |-> <<>>, default_source |-> default_source ]

\* push_diagnostic tagging every diagnostic with the default source.
push_diagnostic_overwrite(context, diagnostic) ==
    [ context EXCEPT !.diagnostics =
        Append(@, [ diagnostic EXCEPT !.source = context.default_source ]) ]

push_diagnostic(context, diagnostic) ==
    LET filled == IF diagnostic.source = None
                  THEN [ diagnostic EXCEPT !.source = context.default_source ]
                  ELSE diagnostic
    IN  [ context EXCEPT !.diagnostics = Append(@, filled) ]

RECURSIVE push_all(_, _)
push_all(context, pushed) ==
    IF pushed = <<>> THEN context
    ELSE push_all(push_diagnostic(context, Head(pushed)), Tail(pushed))

into_diagnostics(context) == context.diagnostics

----------------------------------------------------------------------------
(* pipeline/pass.rs and pipeline/edit.rs: StructuredPass and its adapter *)

\* The item lists and ranges extract may put in a target.
ItemLists == { <<>>, <<"y", "x">>, <<"bad">> }

TargetRanges == { <<0, 1>>, <<1, 2>>, <<2, 3>> }

\* Edit::with_items: a target has a range and items, and no content yet.
Edit_with_items(range, items) == [ range |-> range, content |-> None, items |-> items ]

Targets == { Edit_with_items(r, it) : r \in TargetRanges, it \in ItemLists }

\* What extract may return.
TargetLists == SeqsUpTo(Targets, MaxEdits)

\* Edit::with_content: the range kept, the content set, the items dropped.
with_content(target, content) == [ range |-> target.range, content |-> content ]

\* transform of the pass instance: it rewrites the items in place, and fails
\* on an item it cannot handle.
transform(items) ==
    IF \E j \in 1..Len(items) : items[j] = "bad"
    THEN [ ok |-> FALSE, items |-> items, err |-> "bad item" ]
    ELSE [ ok |-> TRUE,
           items |-> [ j \in 1..Len(items) |-> IF items[j] = "x" THEN "X" ELSE "Y" ],
           err |-> "" ]

\* build of the pass instance: the items, each followed by a separator.
RECURSIVE build(_)
build(items) ==
    IF items = <<>> THEN <<>> ELSE <<Head(items), ";">> \o build(Tail(items))

\* The loop of the adapter over the targets from the k-th on: an empty item
\* list is skipped, a failed transform is printed on stderr and skipped, and
\* the others give one edit each.
RECURSIVE StructuredPass_run_from(_, _, _, _)
StructuredPass_run_from(targets, k, edits, stderr) ==
    IF k > Len(targets) THEN [ edits |-> edits, stderr |-> stderr ]
    ELSE LET target == targets[k]
             done   == transform(target.items)
         IN  IF target.items = <<>>
             THEN StructuredPass_run_from(targets, k + 1, edits, stderr)
             ELSE IF ~done.ok
             THEN StructuredPass_run_from(targets, k + 1, edits,
                    Append(stderr, Message("Transform error in pass: {}", <<done.err>>)))
             ELSE StructuredPass_run_from(targets, k + 1,
                    Append(edits, with_content(target, build(done.items))), stderr)

\* <T as Pass>::run for a StructuredPass: the edits are all it returns.
StructuredPass_run(targets) == StructuredPass_run_from(targets, 1, <<>>, <<>>)

\* A pass that is a StructuredPass behind the adapter.
StructuredPassName == "Structured"

----------------------------------------------------------------------------
(* The passes: what pass.run(&mut context) pushes and returns *)

Edit_new(range, content) == [ range |-> range, content |-> content ]

\* Diagnostics a pass may push: none, one with its source unset, one with an
\* explicit source.
DiagPushes ==
    { <<>>,
      << Diagnostic(None, Message("note", <<>>), "Info", None) >>,
      << Diagnostic(Some(<<0, 1>>), Message("bad", <<>>), "Error", Some("lint")) >> }

\* One edit (idx, idx + 1) -> to for every byte of source equal to from.
RECURSIVE SubstEdits(_, _, _, _)
SubstEdits(source, idx, from, to) ==
    IF idx >= Len(source) THEN <<>>
    ELSE IF source[idx + 1] = from
         THEN <<Edit_new(<<idx, idx + 1>>, <<to>>)>> \o SubstEdits(source, idx + 1, from, to)
         ELSE SubstEdits(source, idx + 1, from, to)

\* The deterministic passes pipelines are built from.
LibraryPasses == { "AtoB", "BtoA", "Overlap", "Insert" }

\* A pass that may return any edit list and push any of DiagPushes.
AnyPass == "Any"

\* The edit lists of the pass "Ranges": up to MaxEdits + 1 edits over every
\* range, each putting the same text in.
RangeLists == SeqsUpTo([ range : Ranges, content : { <<"X">> } ], MaxEdits + 1)

\* The text the pass "Ranges" is run on.
RangeSource == <<"a", "\n", "b">>

\* The possible results of one pass.run call on the given source.
PassOutputs(pass, source) ==
    CASE pass = "AtoB" ->
            { [ edits |-> SubstEdits(source, 0, "a", "b"),
                pushed |-> << Diagnostic(None, Message("note", <<>>), "Info", None) >> ] }
      [] pass = "BtoA" ->
            { [ edits |-> SubstEdits(source, 0, "b", "a"), pushed |-> <<>> ] }
      [] pass = "Overlap" ->
            { [ edits |-> << Edit_new(<<0, 2>>, <<"X">>), Edit_new(<<1, 2>>, <<>>) >>,
                pushed |-> << Diagnostic(Some(<<0, 1>>), Message("bad", <<>>), "Error", Some("lint")) >> ] }
      [] pass = "Insert" ->
            { [ edits |-> << Edit_new(<<3, 3>>, <<"X">>), Edit_new(<<1, 1>>, <<"Y">>) >>,
                pushed |-> <<>> ] }
      [] pass = "Any" ->
            { [ edits |-> e, pushed |-> d ] : e \in EditLists, d \in DiagPushes }
      [] pass = "Ranges" ->
            { [ edits |-> e, pushed |-> <<>> ] : e \in RangeLists }
      [] pass = "Structured" ->
            { [ edits |-> StructuredPass_run(tl).edits, pushed |-> <<>>,
                targets |-> tl, stderr |-> StructuredPass_run(tl).stderr ] :
              tl \in TargetLists }

\* The targets extract returned, for a pass behind the adapter.
ExtractedTargets(out) == IF "targets" \in DOMAIN out THEN out.targets ELSE <<>>

\* What the pass printed on stderr.
PrintedErrors(out) == IF "stderr" \in DOMAIN out THEN out.stderr ELSE <<>>

----------------------------------------------------------------------------
(* pipeline/pipeline_core.rs *)

\* How many add_pass calls a pipeline under construction gets.
MaxAdded == 4

\* Pipeline::new: Vec::new()
Pipeline_new == <<>>

\* add_pass putting the pass in front of the others.
add_pass_front(passes, pass) == <<pass>> \o passes

\* add_pass: self.passes.push(Box::new(pass))
add_pass(passes, pass) == Append(passes, pass)

\* passes(): &self.passes
Pipeline_passes(passes) == passes

\* len(): self.passes.len()
Pipeline_len(passes) == Len(passes)

\* is_empty(): self.passes.is_empty()
Pipeline_is_empty(passes) == Len(passes) = 0

----------------------------------------------------------------------------
(* core/engine.rs: normalize_edits and compute_diff *)

\* Insert e before the elements whose start equals its own.
RECURSIVE InsertByStart_before_equal(_, _)
InsertByStart_before_equal(sorted, e) ==
    IF sorted = <<>> THEN <<e>>
    ELSE IF Head(sorted).range[1] < e.range[1]
         THEN <<Head(sorted)>> \o InsertByStart_before_equal(Tail(sorted), e)
         ELSE <<e>> \o sorted

\* Insert e after every element whose start is <= its own: a stable sort.
RECURSIVE InsertByStart(_, _)
InsertByStart(sorted, e) ==
    IF sorted = <<>> THEN <<e>>
    ELSE IF Head(sorted).range[1] <= e.range[1]
         THEN <<Head(sorted)>> \o InsertByStart(Tail(sorted), e)
         ELSE <<e>> \o sorted

RECURSIVE sort_by_start(_)
sort_by_start(edits) ==
    IF edits = <<>> THEN <<>>
    ELSE InsertByStart(sort_by_start(SubSeq(edits, 1, Len(edits) - 1)), edits[Len(edits)])

\* An overlap decided by the two ends.
Overlaps_by_end(first, second) == first.range[2] > second.range[2]

\* first.range.1 > second.range.0
Overlaps(first, second) == first.range[2] > second.range[1]

EditConflict(first, second) == [ first |-> first, second |-> second ]

\* The last window of two adjacent edits that overlap, if any.
RECURSIVE first_conflict_last(_, _)
first_conflict_last(edits, k) ==
    IF k >= Len(edits) THEN None
    ELSE LET later == first_conflict_last(edits, k + 1)
         IN  IF later # None THEN later
             ELSE IF Overlaps(edits[k], edits[k + 1])
                  THEN Some(EditConflict(edits[k].range, edits[k + 1].range))
                  ELSE None

\* The first window of two adjacent edits that overlap, if any.
RECURSIVE first_conflict(_, _)
first_conflict(edits, k) ==
    IF k >= Len(edits) THEN None
    ELSE IF Overlaps(edits[k], edits[k + 1])
         THEN Some(EditConflict(edits[k].range, edits[k + 1].range))
         ELSE first_conflict(edits, k + 1)

\* edits is sorted in place either way; conflict is the Err value, if any.
normalize_edits(edits) ==
    LET sorted == sort_by_start(edits)
    IN  [ edits |-> sorted, conflict |-> first_conflict(sorted, 1) ]

\* compute_diff without its early return for equal texts.
compute_diff_always(original, formatted) ==
    Some([ header |-> <<"original", "formatted">>,
           from |-> original, to |-> formatted ])

\* The unified diff is kept as the two texts it was made from.
compute_diff(original, formatted) ==
    IF original = formatted THEN None
    ELSE Some([ header |-> <<"original", "formatted">>,
                from |-> original, to |-> formatted ])

----------------------------------------------------------------------------
(* core/engine.rs: Engine::run, one iteration of the loop over the passes *)

\* format!("pass#{index}")
PassSource(idx) == "pass#" \o ToString(idx)

conflict_diag(conflict, idx) ==
    Diagnostic(Some(conflict.first),
               Message("Conflicting edits detected between ranges {:?} and {:?}",
                       <<conflict.first, conflict.second>>),
               "Error",
               Some(PassSource(idx)))

\* edits.into_iter().rev()
RECURSIVE Reverse(_)
Reverse(s) == IF s = <<>> THEN <<>> ELSE Append(Reverse(Tail(s)), Head(s))

\* The edits applied in ascending order.
ApplyOrder_forward(edits) == edits

ApplyOrder(edits) == Reverse(edits)

\* What one apply_edit call hands to tree.edit, with the text and line index
\* of the state it was called on and of the state it left: nothing when
\* there is no tree.
TreeEdit(st, edit, after) ==
    IF has_tree(st)
    THEN << [ edit   |-> Parser_input_edit(edit.range[1], edit.range[2], edit.content),
              before |-> [ source |-> st.source, line_offsets |-> st.line_offsets ],
              after  |-> [ source |-> after.source,
                           line_offsets |-> after.line_offsets ] ] >>
    ELSE <<>>

\* The loop over the edits with an edit that is not in bounds left out.
RECURSIVE apply_edits_skip_bad(_, _)
apply_edits_skip_bad(st, ordered) ==
    IF ordered = <<>> THEN [ panicked |-> FALSE, state |-> st, notified |-> <<>> ]
    ELSE LET edit == Head(ordered)
         IN  IF ~RangeInBounds(st.source, edit.range[1], edit.range[2])
             THEN apply_edits_skip_bad(st, Tail(ordered))
             ELSE LET after == Parser_apply_edit(st, edit.range[1], edit.range[2],
                                                 edit.content)
                      rest  == apply_edits_skip_bad(after, Tail(ordered))
                  IN  [ rest EXCEPT !.notified = TreeEdit(st, edit, after) \o @ ]

\* The loop over the edits: each goes through Parser::apply_edit, whose
\* replace_range panics on a range that is not in bounds.
RECURSIVE apply_edits(_, _)
apply_edits(st, ordered) ==
    IF ordered = <<>> THEN [ panicked |-> FALSE, state |-> st, notified |-> <<>> ]
    ELSE LET edit == Head(ordered)
         IN  IF ~RangeInBounds(st.source, edit.range[1], edit.range[2])
             THEN [ panicked |-> TRUE, state |-> st, notified |-> <<>> ]
             ELSE LET after == Parser_apply_edit(st, edit.range[1], edit.range[2],
                                                 edit.content)
                      rest  == apply_edits(after, Tail(ordered))
                  IN  [ rest EXCEPT !.notified = TreeEdit(st, edit, after) \o @ ]

\* run_pass without the continue that ends the conflict branch: the
\* conflict is reported and the edits are applied all the same.
run_pass_no_continue(st, diags, idx, out) ==
    LET context    == push_all(FormatterContext_new(Some(PassSource(idx))), out.pushed)
        pass_diags == into_diagnostics(context)
        normalized == normalize_edits(out.edits)
        applied    == apply_edits(st, ApplyOrder(normalized.edits))
    IN  IF out.edits = <<>>
        THEN [ result |-> "empty", state |-> st, diagnostics |-> diags \o pass_diags ]
        ELSE IF applied.panicked
        THEN [ result |-> "panic", state |-> applied.state, diagnostics |-> diags ]
        ELSE IF normalized.conflict # None
        THEN [ result |-> "conflict", state |-> Parser_reparse(applied.state),
               diagnostics |-> Append(diags, conflict_diag(normalized.conflict[1], idx))
                               \o pass_diags ]
        ELSE [ result |-> "applied", state |-> Parser_reparse(applied.state),
               diagnostics |-> diags \o pass_diags ]

\* run_pass treating an Error diagnostic pushed by the pass as a failure of
\* the pass: its edits are dropped.
run_pass_error_discards(st, diags, idx, out) ==
    LET context    == push_all(FormatterContext_new(Some(PassSource(idx))), out.pushed)
        pass_diags == into_diagnostics(context)
        normalized == normalize_edits(out.edits)
        applied    == apply_edits(st, ApplyOrder(normalized.edits))
    IN  IF out.edits = <<>>
        THEN [ result |-> "empty", state |-> st, diagnostics |-> diags \o pass_diags ]
        ELSE IF normalized.conflict # None
        THEN [ result |-> "conflict", state |-> st,
               diagnostics |-> Append(diags, conflict_diag(normalized.conflict[1], idx))
                               \o pass_diags ]
        ELSE IF \E j \in 1..Len(out.pushed) : out.pushed[j].severity = "Error"
        THEN [ result |-> "applied", state |-> st, diagnostics |-> diags \o pass_diags ]
        ELSE IF applied.panicked
        THEN [ result |-> "panic", state |-> applied.state, diagnostics |-> diags ]
        ELSE [ result |-> "applied", state |-> Parser_reparse(applied.state),
               diagnostics |-> diags \o pass_diags ]

\* run_pass reparsing also when the pass returned no edit.
run_pass_reparse_when_empty(st, diags, idx, out) ==
    LET context    == push_all(FormatterContext_new(Some(PassSource(idx))), out.pushed)
        pass_diags == into_diagnostics(context)
        normalized == normalize_edits(out.edits)
        applied    == apply_edits(st, ApplyOrder(normalized.edits))
    IN  IF out.edits # <<>> /\ normalized.conflict # None
        THEN [ result |-> "conflict", state |-> st,
               diagnostics |-> Append(diags, conflict_diag(normalized.conflict[1], idx))
                               \o pass_diags ]
        ELSE IF applied.panicked
        THEN [ result |-> "panic", state |-> applied.state, diagnostics |-> diags ]
        ELSE [ result |-> IF out.edits = <<>> THEN "empty" ELSE "applied",
               state |-> Parser_reparse(applied.state),
               diagnostics |-> diags \o pass_diags ]

\* The body of the loop for the pass at idx, given what pass.run returned
\* and pushed: the state and the diagnostics buffer it leaves.
run_pass(st, diags, idx, out) ==
    LET context    == push_all(FormatterContext_new(Some(PassSource(idx))), out.pushed)
        pass_diags == into_diagnostics(context)
        normalized == normalize_edits(out.edits)
        applied    == apply_edits(st, ApplyOrder(normalized.edits))
    IN  IF out.edits = <<>>
        THEN [ result |-> "empty", state |-> st, diagnostics |-> diags \o pass_diags ]
        ELSE IF normalized.conflict # None
        THEN [ result |-> "conflict", state |-> st,
               diagnostics |-> Append(diags, conflict_diag(normalized.conflict[1], idx))
                               \o pass_diags ]
        ELSE IF applied.panicked
        THEN [ result |-> "panic", state |-> applied.state, diagnostics |-> diags ]
        ELSE [ result |-> "applied", state |-> Parser_reparse(applied.state),
               diagnostics |-> diags \o pass_diags ]

\* RunReport with changed decided by the lengths of the two texts.
RunReport_by_length(st, original, diags) ==
    [ changed |-> Len(st.source) # Len(original), diagnostics |-> diags,
      final_source |-> st.source ]

\* After the loop: the RunReport.
RunReport(st, original, diags) ==
    [ changed |-> st.source # original, diagnostics |-> diags, final_source |-> st.source ]

\* files.get(i).cloned()
files_get(fs, k) == IF k < Len(fs) THEN Some(fs[k + 1]) ELSE None

\* One iteration per (code, path) pair, as codes.iter().zip(files) would do.
FileCount_zip(cs, fs) == IF Len(cs) <= Len(fs) THEN Len(cs) ELSE Len(fs)

\* for (i, code) in codes.iter().enumerate(): one iteration per code.
FileCount(cs, fs) == Len(cs)

\* The outcome put in front of the others.
PushOutcome_front(os, outcome) == <<outcome>> \o os

\* outcomes.push(outcome)
PushOutcome(os, outcome) == Append(os, outcome)

\* The write block in both entry points.
WritesToDisk_always(m) == TRUE

\* The write block in neither entry point.
WritesToDisk_never(m) == FALSE

\* Only format_and_write has the write block.
WritesToDisk(m) == m = "format_and_write"

\* A write that reports success and leaves the file as it was.
fs_write_keep(d, path, content) == d

\* std::fs::write(&file_path, final_source.as_bytes()) succeeding: the file
\* holds exactly the bytes written.
fs_write(d, path, content) == [ d EXCEPT ![path] = content ]

\* The outcome check and format_and_write build from a report.
MakeOutcome(report, code, path) ==
    [ FileFormatOutcome_new(path) EXCEPT
        !.changed = report.changed,
        !.diagnostics = report.diagnostics,
        !.diff = compute_diff(code, report.final_source) ]

\* The write block without its test of outcome.changed.
NeedsWrite_any_path(outcome) == outcome.path # None

\* if outcome.changed { if let Some(file_path) = path { write } }
NeedsWrite(outcome) == outcome.changed /\ outcome.path # None

----------------------------------------------------------------------------
(* The state machine: Engine::check / Engine::format_and_write *)

Running == [ tag |-> "Running", outcomes |-> <<>> ]

\* What the files hold before the call: the text that was read from them.
InitDisk(cs, fs) ==
    [ p \in Paths |->
        IF \E k \in 1..Len(cs) : k <= Len(fs) /\ fs[k] = p
        THEN cs[CHOOSE k \in 1..Len(cs) :
                    /\ k <= Len(fs) /\ fs[k] = p
                    /\ \A j \in 1..(k - 1) : ~(j <= Len(fs) /\ fs[j] = p)]
        ELSE <<>> ]

InitCall(m, cs, fs, pl) ==
    /\ mode = m
    /\ codes = cs
    /\ files = fs
    /\ pipeline = pl
    /\ pc = "files"
    /\ i = 0
    /\ index = 0
    /\ state = ParseState_new(<<>>)
    /\ original_source = <<>>
    /\ diagnostics = <<>>
    /\ outcomes = <<>>
    /\ reports = <<>>
    /\ passlog = <<>>
    /\ disk = InitDisk(cs, fs)
    /\ writes = <<>>
    /\ ret = Running
    /\ calls = <<>>
    /\ added = pl

\* Any call on up to MaxFiles files with a pipeline of library passes.
Init ==
    \E m \in {"check", "format_and_write"},
       cs \in SeqsUpTo(Sources, MaxFiles),
       fs \in SeqsUpTo(Paths, MaxFiles),
       pl \in SeqsUpTo(LibraryPasses, MaxPasses) :
        InitCall(m, cs, fs, pl)

\* Any call on up to MaxFiles files that each have a path.
InitTwice ==
    \E m \in {"check", "format_and_write"},
       cs \in SeqsUpTo(Sources, MaxFiles),
       fs \in SeqsUpTo(Paths, MaxFiles),
       pl \in SeqsUpTo(LibraryPasses, MaxPasses) :
        Len(fs) = Len(cs) /\ InitCall(m, cs, fs, pl)

\* check on one file with a pass that may return any edit list, followed
\* by a library pass.
InitPass ==
    \E m \in {"check"},
       src \in PassSources :
        InitCall(m, <<src>>, <<"/x">>, <<AnyPass, "AtoB">>)

\* check on one file with a StructuredPass behind the adapter, followed by
\* a library pass.
InitStructured ==
    \E m \in {"check"},
       src \in PassSources :
        InitCall(m, <<src>>, <<"/x">>, <<StructuredPassName, "AtoB">>)

\* check on one file of three bytes with a pass that may return any list of
\* up to MaxEdits + 1 edits.
InitRanges ==
    \E m \in {"check"} :
        InitCall(m, <<RangeSource>>, <<"/x">>, <<"Ranges">>)

\* The context built on the snapshot taken before the first pass.
ContextSource_original(st, original) == original

\* The source the pass's context is built on: state.source() (engine.rs:64).
ContextSource(st, original) == st.source

\* for (i, code) in codes.iter().enumerate(): ParseState::new, then the head
\* of Engine::run (parse when there is no tree, remember the original).
StartFile ==
    /\ pc = "files"
    /\ i < FileCount(codes, files)
    /\ LET fresh == ParseState_new(codes[i + 1])
           parsed == IF has_tree(fresh) THEN fresh ELSE Parser_parse(fresh)
       IN  /\ state' = parsed
           /\ original_source' = parsed.source
    /\ diagnostics' = <<>>
    /\ index' = 0
    /\ passlog' = <<>>
    /\ pc' = "passes"
    /\ UNCHANGED <<added, calls, mode, codes, files, pipeline, i, outcomes, reports, disk, writes, ret>>

\* One iteration of the loop over the passes that does not panic.
RunPass ==
    /\ pc = "passes"
    /\ index < Len(pipeline)
    /\ \E out \in PassOutputs(pipeline[index + 1], ContextSource(state, original_source)) :
         LET r == run_pass(state, diagnostics, index, out)
         IN  /\ r.result # "panic"
             /\ state' = r.state
             /\ diagnostics' = r.diagnostics
             /\ passlog' = Append(passlog,
                    [ file |-> i,
                      index |-> index,
                      pass |-> pipeline[index + 1],
                      input |-> ContextSource(state, original_source),
                      edits |-> out.edits,
                      pushed |-> out.pushed,
                      targets |-> ExtractedTargets(out),
                      stderr |-> PrintedErrors(out),
                      result |-> r.result,
                      added |-> SubSeq(r.diagnostics, Len(diagnostics) + 1,
                                       Len(r.diagnostics)),
                      notified |-> IF r.result = "applied"
                                   THEN apply_edits(state,
                                            ApplyOrder(normalize_edits(out.edits).edits)
                                        ).notified
                                   ELSE <<>>,
                      output |-> r.state.source ])
    /\ index' = index + 1
    /\ UNCHANGED <<added, calls, mode, codes, files, pipeline, pc, i, original_source, outcomes,
                   reports, disk, writes, ret>>

\* An edit out of bounds: replace_range panics and the call unwinds.
PassPanic ==
    /\ pc = "passes"
    /\ index < Len(pipeline)
    /\ \E out \in PassOutputs(pipeline[index + 1], ContextSource(state, original_source)) :
         run_pass(state, diagnostics, index, out).result = "panic"
    /\ pc' = "panicked"
    /\ ret' = [ tag |-> "Panic", outcomes |-> <<>> ]
    /\ UNCHANGED <<added, calls, mode, codes, files, pipeline, i, index, state, original_source,
                   diagnostics, outcomes, reports, passlog, disk, writes>>

\* The report and the outcome of the file at i, once its passes are over.
CurrentReport == RunReport(state, original_source, diagnostics)

CurrentOutcome == MakeOutcome(CurrentReport, codes[i + 1], files_get(files, i))

PassesOver == pc = "passes" /\ index = Len(pipeline)

\* check: outcomes.push(outcome), nothing else.
FinishCheck ==
    /\ PassesOver
    /\ ~WritesToDisk(mode)
    /\ outcomes' = PushOutcome(outcomes, CurrentOutcome)
    /\ reports' = Append(reports, CurrentReport)
    /\ i' = i + 1
    /\ pc' = "files"
    /\ UNCHANGED <<added, calls, mode, codes, files, pipeline, index, state, original_source,
                   diagnostics, passlog, disk, writes, ret>>

\* format_and_write, nothing to write for this file.
FinishNoWrite ==
    /\ PassesOver
    /\ WritesToDisk(mode)
    /\ ~NeedsWrite(CurrentOutcome)
    /\ outcomes' = PushOutcome(outcomes, CurrentOutcome)
    /\ reports' = Append(reports, CurrentReport)
    /\ i' = i + 1
    /\ pc' = "files"
    /\ UNCHANGED <<added, calls, mode, codes, files, pipeline, index, state, original_source,
                   diagnostics, passlog, disk, writes, ret>>

\* format_and_write, std::fs::write succeeds.
FinishWrite ==
    /\ PassesOver
    /\ WritesToDisk(mode)
    /\ NeedsWrite(CurrentOutcome)
    /\ disk' = fs_write(disk, CurrentOutcome.path[1], CurrentReport.final_source)
    /\ writes' = Append(writes, [ file |-> i, path |-> CurrentOutcome.path[1],
                                  content |-> CurrentReport.final_source, ok |-> TRUE ])
    /\ outcomes' = PushOutcome(outcomes, CurrentOutcome)
    /\ reports' = Append(reports, CurrentReport)
    /\ i' = i + 1
    /\ pc' = "files"
    /\ UNCHANGED <<added, calls, mode, codes, files, pipeline, index, state, original_source,
                   diagnostics, passlog, ret>>

\* A failed write that ends the call with the outcomes gathered so far.
OnWriteError_partial(partial) == [ tag |-> "Ok", outcomes |-> partial ]

\* What the ? operator does with a failed write: return Err(e) at once.
OnWriteError(partial) == [ tag |-> "Err", outcomes |-> <<>> ]

\* format_and_write, std::fs::write fails: the file is left as it was or
\* truncated, and the error is returned.
WriteError ==
    /\ PassesOver
    /\ WritesToDisk(mode)
    /\ NeedsWrite(CurrentOutcome)
    /\ \E left \in { disk[CurrentOutcome.path[1]], <<>> } :
         disk' = [ disk EXCEPT ![CurrentOutcome.path[1]] = left ]
    /\ writes' = Append(writes, [ file |-> i, path |-> CurrentOutcome.path[1],
                                  content |-> CurrentReport.final_source, ok |-> FALSE ])
    /\ reports' = Append(reports, CurrentReport)
    /\ ret' = OnWriteError(outcomes)
    /\ pc' = "returned"
    /\ UNCHANGED <<added, calls, mode, codes, files, pipeline, i, index, state, original_source,
                   diagnostics, outcomes, passlog>>

\* The loop over the files is over: outcomes / Ok(outcomes).
Return ==
    /\ pc = "files"
    /\ i = FileCount(codes, files)
    /\ ret' = [ tag |-> "Ok", outcomes |-> outcomes ]
    /\ pc' = "returned"
    /\ UNCHANGED <<added, calls, mode, codes, files, pipeline, i, index, state, original_source,
                   diagnostics, outcomes, reports, passlog, disk, writes>>

\* The outcomes of the call before kept in the vector of the next call.
NewOutcomes_kept(previous) == previous

\* let mut outcomes = Vec::new(): a call gathers its outcomes from nothing.
NewOutcomes(previous) == <<>>

\* What a call leaves behind for the properties of the next one.
CallRecord ==
    [ mode |-> mode, codes |-> codes, files |-> files, ret |-> ret,
      reports |-> reports ]

\* check returned and is called again on the same engine with the same
\* codes and paths: the engine keeps its pipeline and its parser, and every
\* other value of the call is a local made anew.
CheckAgain ==
    /\ pc = "returned"
    /\ ret.tag = "Ok"
    /\ mode = "check"
    /\ calls = <<>>
    /\ calls' = Append(calls, CallRecord)
    /\ pc' = "files"
    /\ i' = 0
    /\ index' = 0
    /\ state' = ParseState_new(<<>>)
    /\ original_source' = <<>>
    /\ diagnostics' = <<>>
    /\ outcomes' = NewOutcomes(outcomes)
    /\ reports' = <<>>
    /\ passlog' = <<>>
    /\ ret' = Running
    /\ UNCHANGED <<added, mode, codes, files, pipeline, disk, writes>>

\* The paths that were given with a code, and what each holds on disk.
WrittenFiles(cs, fs) == SubSeq(fs, 1, IF Len(cs) <= Len(fs) THEN Len(cs) ELSE Len(fs))

ReadBack(fs, d) == [ k \in 1..Len(fs) |-> d[fs[k]] ]

\* format_and_write returned Ok; the files are read back from disk and
\* check is called on the same engine with what they hold.
CheckWritten ==
    /\ pc = "returned"
    /\ ret.tag = "Ok"
    /\ mode = "format_and_write"
    /\ calls = <<>>
    /\ calls' = Append(calls, CallRecord)
    /\ mode' = "check"
    /\ files' = WrittenFiles(codes, files)
    /\ codes' = ReadBack(WrittenFiles(codes, files), disk)
    /\ pc' = "files"
    /\ i' = 0
    /\ index' = 0
    /\ state' = ParseState_new(<<>>)
    /\ original_source' = <<>>
    /\ diagnostics' = <<>>
    /\ outcomes' = NewOutcomes(outcomes)
    /\ reports' = <<>>
    /\ passlog' = <<>>
    /\ ret' = Running
    /\ UNCHANGED <<added, pipeline, disk, writes>>

\* A ParseState on its own: ParseState::new(source).
InitReplace ==
    \E src \in PassSources :
        /\ mode = "check"
        /\ codes = <<>>
        /\ files = <<>>
        /\ pipeline = <<>>
        /\ pc = "state"
        /\ i = 0
        /\ index = 0
        /\ state = ParseState_new(src)
        /\ original_source = src
        /\ diagnostics = <<>>
        /\ outcomes = <<>>
        /\ reports = <<>>
        /\ passlog = <<>>
        /\ disk = InitDisk(<<>>, <<>>)
        /\ writes = <<>>
        /\ ret = Running
        /\ calls = <<>>
        /\ added = <<>>

\* state.replace_range(start..end, replacement), for a range the text has.
ReplaceRange ==
    /\ pc = "state"
    /\ \E start \in 0..MaxLen, end \in 0..MaxLen, replacement \in ReplaceContents :
         /\ RangeInBounds(state.source, start, end)
         /\ Len(state.source) - (end - start) + Len(replacement) <= MaxLen
         /\ state' = ParseState_replace_range(state, start, end, replacement)
    /\ UNCHANGED <<mode, codes, files, pipeline, pc, i, index, original_source,
                   diagnostics, outcomes, reports, passlog, disk, writes, ret, calls,
                   added>>

NextReplace ==
    \/ ReplaceRange

SpecReplace == InitReplace /\ [][NextReplace]_vars

\* A pipeline is being built: no engine has it yet.
InitPipeline ==
    /\ mode = "check"
    /\ codes = <<>>
    /\ files = <<>>
    /\ pipeline = Pipeline_new
    /\ pc = "building"
    /\ i = 0
    /\ index = 0
    /\ state = ParseState_new(<<>>)
    /\ original_source = <<>>
    /\ diagnostics = <<>>
    /\ outcomes = <<>>
    /\ reports = <<>>
    /\ passlog = <<>>
    /\ disk = InitDisk(<<>>, <<>>)
    /\ writes = <<>>
    /\ ret = Running
    /\ calls = <<>>
    /\ added = <<>>

\* pipeline.add_pass(pass)
AddPass ==
    /\ pc = "building"
    /\ Len(added) < MaxAdded
    /\ \E pass \in LibraryPasses :
         /\ pipeline' = add_pass(pipeline, pass)
         /\ added' = Append(added, pass)
    /\ UNCHANGED <<mode, codes, files, pc, i, index, state, original_source,
                   diagnostics, outcomes, reports, passlog, disk, writes, ret, calls>>

NextPipeline ==
    \/ AddPass

SpecPipeline == InitPipeline /\ [][NextPipeline]_vars

Next ==
    \/ StartFile
    \/ RunPass
    \/ PassPanic
    \/ FinishCheck
    \/ FinishNoWrite
    \/ FinishWrite
    \/ WriteError
    \/ Return

Spec == Init /\ [][Next]_vars

\* Two calls in succession on one engine.
NextTwice ==
    \/ StartFile
    \/ RunPass
    \/ PassPanic
    \/ FinishCheck
    \/ FinishNoWrite
    \/ FinishWrite
    \/ WriteError
    \/ Return
    \/ CheckAgain
    \/ CheckWritten

SpecTwice == InitTwice /\ [][NextTwice]_vars

\* check on one file.
NextPass ==
    \/ StartFile
    \/ RunPass
    \/ PassPanic
    \/ FinishCheck
    \/ Return

SpecPass == InitPass /\ [][NextPass]_vars

SpecStructured == InitStructured /\ [][NextPass]_vars

SpecRanges == InitRanges /\ [][NextPass]_vars

----------------------------------------------------------------------------
(* Properties *)

\* The file whose passes were run last is finished and its log still there.
JustFinished == pc = "files" /\ i >= 1 /\ Len(outcomes) = i /\ Len(reports) = i

\* The source after the last pass of the log (the code itself, with no pass).
LastOutput ==
    IF passlog = <<>> THEN codes[i] ELSE passlog[Len(passlog)].output

\* Some pass of the log rewrote the text.
SomePassRewrote ==
    \E k \in 1..Len(passlog) :
        passlog[k].result = "applied" /\ passlog[k].output # passlog[k].input

\* C1: every outcome built, and every outcome returned, has changed true
\* exactly when the source after the last pass differs from the code the
\* file was given with.
C1_ChangedIffSourceDiffers ==
    /\ \A k \in 1..Len(outcomes) :
         outcomes[k].changed = (reports[k].final_source # codes[k])
    /\ JustFinished => reports[i].final_source = LastOutput
    /\ ret.tag = "Ok" =>
         \A k \in 1..Len(ret.outcomes) :
            ret.outcomes[k].changed = (reports[k].final_source # codes[k])

\* A call returned a changed outcome and an unchanged one.
C1_Witness ==
    /\ ret.tag = "Ok"
    /\ \E k \in 1..Len(ret.outcomes) :
         ret.outcomes[k].changed /\ reports[k].final_source # codes[k]
    /\ \E k \in 1..Len(ret.outcomes) :
         ~ret.outcomes[k].changed /\ reports[k].final_source = codes[k]

\* C2: every outcome has a diff exactly when it is changed; a file whose
\* final text equals its original text has changed false and no diff, also
\* when its passes rewrote it on the way.
C2_DiffIffChanged ==
    /\ \A k \in 1..Len(outcomes) :
         /\ (outcomes[k].diff # None) = outcomes[k].changed
         /\ reports[k].final_source = codes[k] =>
              ~outcomes[k].changed /\ outcomes[k].diff = None
    /\ ret.tag = "Ok" =>
         \A k \in 1..Len(ret.outcomes) :
            (ret.outcomes[k].diff # None) = ret.outcomes[k].changed

\* A file was rewritten and then restored: unchanged, no diff.
C2_Witness ==
    /\ JustFinished
    /\ SomePassRewrote
    /\ LastOutput = codes[i]
    /\ ~outcomes[i].changed
    /\ outcomes[i].diff = None

\* The edits fail normalisation: some adjacent pair of the list sorted by
\* start overlaps.
FailsNormalization(edits) ==
    edits # <<>> /\ normalize_edits(edits).conflict # None

\* d is an Error diagnostic tagged "pass#idx" whose message names the ranges
\* of two edits of the list, the first reaching past the start of the second.
IsConflictDiagnostic(d, idx, edits) ==
    /\ d.severity = "Error"
    /\ d.source = Some("pass#" \o ToString(idx))
    /\ Len(d.message.args) = 2
    /\ \E a, b \in 1..Len(edits) :
         /\ a # b
         /\ d.message.args = <<edits[a].range, edits[b].range>>
         /\ edits[a].range[1] <= edits[b].range[1]
         /\ edits[a].range[2] > edits[b].range[1]

\* C3: when the edits of the pass at index idx fail normalisation, exactly
\* one such conflict diagnostic is added, the source is what it was before
\* the pass, the loop goes on with the next pass, and a file that finishes
\* has had every pass of the pipeline run.
C3_ConflictDiscardsPass ==
    /\ \A k \in 1..Len(passlog) :
         FailsNormalization(passlog[k].edits) =>
            /\ passlog[k].result = "conflict"
            /\ Cardinality({ j \in 1..Len(passlog[k].added) :
                    IsConflictDiagnostic(passlog[k].added[j], passlog[k].index,
                                         passlog[k].edits) }) = 1
            /\ passlog[k].output = passlog[k].input
            /\ (k = Len(passlog) /\ pc = "passes") =>
                    index = passlog[k].index + 1 /\ state.source = passlog[k].input
    /\ JustFinished => Len(passlog) = Len(pipeline)

\* The first pass conflicted on a non-empty text, and the pass after it ran.
C3_Witness ==
    /\ Len(passlog) = 2
    /\ FailsNormalization(passlog[1].edits)
    /\ passlog[1].input # <<>>
    /\ passlog[2].index = 1
    /\ passlog[2].input = passlog[1].input
    /\ passlog[2].result = "applied"

\* The replacement texts of the edits that start at byte p, in list order.
RECURSIVE ContentsAt(_, _, _)
ContentsAt(edits, p, k) ==
    IF k > Len(edits) THEN <<>>
    ELSE (IF edits[k].range[1] = p THEN edits[k].content ELSE <<>>)
         \o ContentsAt(edits, p, k + 1)

Covered(edits, p) ==
    \E k \in 1..Len(edits) : edits[k].range[1] <= p /\ p < edits[k].range[2]

\* All the ranges replaced at once in text: walking the bytes of text, what
\* is inserted at p comes first, then byte p unless some range covers it.
RECURSIVE ReplaceAllFrom(_, _, _)
ReplaceAllFrom(text, edits, p) ==
    IF p > Len(text) THEN <<>>
    ELSE ContentsAt(edits, p, 1)
         \o (IF p < Len(text) /\ ~Covered(edits, p) THEN <<text[p + 1]>> ELSE <<>>)
         \o ReplaceAllFrom(text, edits, p + 1)

ReplaceAll(text, edits) == ReplaceAllFrom(text, edits, 0)

\* C4: a pass whose edits were accepted and applied leaves the text that
\* replacing all the ranges at once in the pre-pass source gives.
C4_DescendingIsAtomicRewrite ==
    \A k \in 1..Len(passlog) :
        passlog[k].result = "applied" =>
            passlog[k].output = ReplaceAll(passlog[k].input, passlog[k].edits)

\* Two edits emitted out of order were applied; the lower one changes the
\* length of the text, so it would shift the higher one if it came first.
C4_Witness ==
    \E k \in 1..Len(passlog) :
        /\ passlog[k].result = "applied"
        /\ Len(passlog[k].edits) = 2
        /\ passlog[k].edits[1].range[1] > passlog[k].edits[2].range[1]
        /\ Len(passlog[k].edits[2].content)
             # passlog[k].edits[2].range[2] - passlog[k].edits[2].range[1]
        /\ passlog[k].edits[1].content # <<>>
        /\ passlog[k].output # passlog[k].input

\* C5: the passes of a file run in pipeline order, each on the source the
\* pass before it left (the file's code for the first); a pass whose edits
\* are empty or rejected leaves its input.
C5_PassesSeeLatestSource ==
    \A k \in 1..Len(passlog) :
        /\ passlog[k].index = k - 1
        /\ passlog[k].pass = pipeline[k]
        /\ passlog[k].file = passlog[1].file
        /\ passlog[k].input = IF k = 1 THEN codes[passlog[k].file + 1]
                              ELSE passlog[k - 1].output
        /\ passlog[k].result \in {"empty", "conflict"} =>
                passlog[k].output = passlog[k].input

\* The first pass rewrote the text and the second pass ran on the result.
C5_Witness ==
    /\ Len(passlog) = 2
    /\ passlog[1].result = "applied"
    /\ passlog[1].output # passlog[1].input
    /\ passlog[2].input = passlog[1].output
    /\ passlog[2].input # codes[passlog[2].file + 1]
    /\ passlog[2].result = "applied"

\* The pipeline run on a parse state from the pass at idx on, as one fold
\* (library passes return one result).
RECURSIVE RunFrom(_, _, _)
RunFrom(st, diags, idx) ==
    IF idx >= Len(pipeline) THEN [ state |-> st, diagnostics |-> diags ]
    ELSE LET out == CHOOSE o \in PassOutputs(pipeline[idx + 1], st.source) : TRUE
             r   == run_pass(st, diags, idx, out)
         IN  RunFrom(r.state, r.diagnostics, idx + 1)

\* The outcome of running the pipeline on the k-th code, with the k-th path.
ExpectedOutcome(k) ==
    LET fin == RunFrom(Parser_parse(ParseState_new(codes[k])), <<>>, 0)
    IN  [ path |-> IF k <= Len(files) THEN Some(files[k]) ELSE None,
          changed |-> fin.state.source # codes[k],
          diagnostics |-> fin.diagnostics,
          diff |-> IF fin.state.source = codes[k] THEN None
                   ELSE Some([ header |-> <<"original", "formatted">>,
                               from |-> codes[k], to |-> fin.state.source ]) ]

\* C6: check gathers, and returns, one outcome per code in the order of the
\* codes: the k-th is the result of the pipeline on the k-th code and
\* carries the k-th path.
C6_CheckOutcomesInInputOrder ==
    mode = "check" =>
        /\ \A k \in 1..Len(outcomes) : outcomes[k] = ExpectedOutcome(k)
        /\ ret.tag = "Ok" =>
              /\ Len(ret.outcomes) = Len(codes)
              /\ \A k \in 1..Len(codes) : ret.outcomes[k] = ExpectedOutcome(k)

\* check returned two outcomes that differ in path and in result.
C6_Witness ==
    /\ mode = "check"
    /\ ret.tag = "Ok"
    /\ Len(ret.outcomes) = 2
    /\ Len(files) = 2
    /\ ret.outcomes[1].path = Some(files[1])
    /\ ret.outcomes[2].path = Some(files[2])
    /\ files[1] # files[2]
    /\ ret.outcomes[1].diff # ret.outcomes[2].diff
    /\ ret.outcomes[1].changed

Min(a, b) == IF a <= b THEN a ELSE b

\* C7 as claimed: a call that returns outcomes returns
\* min(len(codes), len(paths)) of them.
C7_Original_MinOfLengths ==
    ret.tag = "Ok" => Len(ret.outcomes) = Min(Len(codes), Len(files))

\* C7, amended: a call that returns outcomes returns one per code; the k-th
\* carries the k-th path when there is one and no path otherwise; paths
\* past the last code give no outcome.
C7_OneOutcomePerCode ==
    ret.tag = "Ok" =>
        /\ Len(ret.outcomes) = Len(codes)
        /\ \A k \in 1..Len(ret.outcomes) :
              ret.outcomes[k].path = IF k <= Len(files) THEN Some(files[k]) ELSE None

\* A call with more codes than paths returned an outcome without a path.
C7_Witness ==
    /\ ret.tag = "Ok"
    /\ Len(codes) = 2
    /\ Len(files) = 1
    /\ Len(ret.outcomes) = 2
    /\ ret.outcomes[1].path = Some(files[1])
    /\ ret.outcomes[2].path = None

\* C8: check leaves every path with the contents it had and calls no write.
C8_CheckNeverWrites ==
    mode = "check" => disk = InitDisk(codes, files) /\ writes = <<>>

\* check returned a changed outcome with a path, whose file still holds the
\* original text.
C8_Witness ==
    /\ mode = "check"
    /\ ret.tag = "Ok"
    /\ \E k \in 1..Len(ret.outcomes) :
         /\ ret.outcomes[k].changed
         /\ ret.outcomes[k].path # None
         /\ disk[ret.outcomes[k].path[1]] # reports[k].final_source
         /\ disk[ret.outcomes[k].path[1]] = codes[k]

WrittenFor(k) == { j \in 1..Len(writes) : writes[j].file = k - 1 }

\* The last outcome that is changed and carries path p.
LastChangedAt(p) ==
    CHOOSE k \in 1..Len(ret.outcomes) :
        /\ ret.outcomes[k].changed /\ ret.outcomes[k].path = Some(p)
        /\ \A j \in (k + 1)..Len(ret.outcomes) :
              ~(ret.outcomes[j].changed /\ ret.outcomes[j].path = Some(p))

\* C9 as claimed: after a successful format_and_write the path of every
\* changed outcome holds that file's final source, and no write was made
\* for the others.
C9_Original_PathHoldsFinalSource ==
    (mode = "format_and_write" /\ ret.tag = "Ok") =>
        \A k \in 1..Len(ret.outcomes) :
            IF ret.outcomes[k].changed /\ ret.outcomes[k].path # None
            THEN disk[ret.outcomes[k].path[1]] = reports[k].final_source
            ELSE WrittenFor(k) = {}

\* C9, amended: after a successful format_and_write, for every changed
\* outcome with a path exactly one write was made, of that file's final
\* source to that path, and the path holds the final source of the last
\* changed input that carries it; no write was made for the others.
C9_WritesFinalSourceOfChanged ==
    (mode = "format_and_write" /\ ret.tag = "Ok") =>
        \A k \in 1..Len(ret.outcomes) :
            IF ret.outcomes[k].changed /\ ret.outcomes[k].path # None
            THEN /\ Cardinality(WrittenFor(k)) = 1
                 /\ \A j \in WrittenFor(k) :
                       /\ writes[j].ok
                       /\ writes[j].path = ret.outcomes[k].path[1]
                       /\ writes[j].content = reports[k].final_source
                 /\ disk[ret.outcomes[k].path[1]] =
                       reports[LastChangedAt(ret.outcomes[k].path[1])].final_source
            ELSE WrittenFor(k) = {}

\* format_and_write returned a changed outcome whose path holds its final
\* source, and an unchanged outcome with a path.
C9_Witness ==
    /\ mode = "format_and_write"
    /\ ret.tag = "Ok"
    /\ \E k, j \in 1..Len(ret.outcomes) :
         /\ ret.outcomes[k].changed
         /\ ret.outcomes[k].path # None
         /\ disk[ret.outcomes[k].path[1]] = reports[k].final_source
         /\ disk[ret.outcomes[k].path[1]] # codes[k]
         /\ ~ret.outcomes[j].changed
         /\ ret.outcomes[j].path # None
         /\ WrittenFor(j) = {}

\* C10: a write that failed is the last thing the call did: it returned the
\* error with no outcome, and no file after that one was run or written.
C10_WriteErrorReturnsAtOnce ==
    \A j \in 1..Len(writes) :
        ~writes[j].ok =>
            /\ j = Len(writes)
            /\ pc = "returned"
            /\ ret.tag = "Err"
            /\ ret.outcomes = <<>>
            /\ i = writes[j].file
            /\ Len(reports) = writes[j].file + 1
            /\ \A k \in 1..Len(passlog) : passlog[k].file = writes[j].file

\* The write of the second file failed: the outcome of the first, already
\* gathered and written, is not returned.
C10_Witness ==
    /\ Len(writes) = 2
    /\ writes[1].ok
    /\ ~writes[2].ok
    /\ writes[2].file = 1
    /\ Len(outcomes) = 1
    /\ ret.tag = "Err"
    /\ ret.outcomes = <<>>

\* The same pass iteration with the same edits, had the pass pushed nothing.
QuietRun(k) ==
    run_pass(Parser_parse(ParseState_new(passlog[k].input)), <<>>, passlog[k].index,
             [ edits |-> passlog[k].edits, pushed |-> <<>> ])

\* d is the pushed diagnostic p, whatever its source tag.
SamePushed(d, p) ==
    d.range = p.range /\ d.message = p.message /\ d.severity = p.severity

\* The diagnostics the first k passes of the log added, in order.
RECURSIVE AllAdded(_)
AllAdded(k) == IF k = 0 THEN <<>> ELSE AllAdded(k - 1) \o passlog[k].added

\* C11: whatever a pass pushes, of any severity, the iteration does what it
\* would have done with the same edits and nothing pushed (same result,
\* same source after it), the next pass runs, and the diagnostics added are
\* those of the quiet run followed by every pushed diagnostic, all of which
\* are in the outcome of the file; changed is decided by the source alone.
C11_DiagnosticsNeverChangeExecution ==
    /\ \A k \in 1..Len(passlog) :
         LET quiet == QuietRun(k)
             p     == passlog[k].pushed
             off   == Len(quiet.diagnostics)
         IN  /\ passlog[k].index = k - 1
             /\ passlog[k].result = quiet.result
             /\ passlog[k].output = quiet.state.source
             /\ Len(passlog[k].added) = off + Len(p)
             /\ SubSeq(passlog[k].added, 1, off) = quiet.diagnostics
             /\ \A j \in 1..Len(p) : SamePushed(passlog[k].added[off + j], p[j])
    /\ pc = "passes" => index = Len(passlog)
    /\ JustFinished =>
         /\ Len(passlog) = Len(pipeline)
         /\ outcomes[i].diagnostics = AllAdded(Len(passlog))
         /\ outcomes[i].changed = (LastOutput # codes[i])

\* A pass pushed an Error diagnostic and its edits rewrote the text; the
\* next pass ran and the diagnostic is in the outcome.
C11_Witness ==
    /\ JustFinished
    /\ Len(passlog) = 2
    /\ passlog[1].pushed # <<>>
    /\ passlog[1].pushed[1].severity = "Error"
    /\ passlog[1].result = "applied"
    /\ passlog[1].output # passlog[1].input
    /\ outcomes[i].changed
    /\ \E j \in 1..Len(outcomes[i].diagnostics) :
         SamePushed(outcomes[i].diagnostics[j], passlog[1].pushed[1])

\* The pushed diagnostic p as the outcome must show it when the pass at idx
\* pushed it.
AsReported(p, idx) ==
    IF p.source = None
    THEN [ p EXCEPT !.source = Some("pass#" \o ToString(idx)) ]
    ELSE p

\* C12: the diagnostics the pass at index idx pushed are the last ones its
\* iteration added, in push order, each as pushed except that an unset
\* source has become "pass#idx"; they are at that place in the outcome.
C12_UnsetSourceBecomesPassIndex ==
    \A k \in 1..Len(passlog) :
        LET p   == passlog[k].pushed
            off == Len(passlog[k].added) - Len(p)
        IN  /\ off >= 0
            /\ \A j \in 1..Len(p) :
                  /\ passlog[k].added[off + j] = AsReported(p[j], passlog[k].index)
                  /\ JustFinished =>
                        outcomes[i].diagnostics[Len(AllAdded(k)) - Len(p) + j]
                            = AsReported(p[j], passlog[k].index)

\* The first pass pushed with an explicit source and the second with none:
\* the outcome shows the first as pushed and the second tagged "pass#1".
C12_Witness ==
    /\ JustFinished
    /\ Len(passlog) = 2
    /\ Len(passlog[1].pushed) = 1
    /\ passlog[1].pushed[1].source = Some("lint")
    /\ Len(passlog[2].pushed) = 1
    /\ passlog[2].pushed[1].source = None
    /\ \E a, b \in 1..Len(outcomes[i].diagnostics) :
         /\ a < b
         /\ outcomes[i].diagnostics[a].source = Some("lint")
         /\ outcomes[i].diagnostics[b].source = Some("pass#1")
         /\ outcomes[i].diagnostics[b].message = passlog[2].pushed[1].message

\* The edits the adapter is to return for the targets from the k-th on: none
\* for a target without items or whose transform fails, and for any other
\* its range with what build makes of the transformed items.
RECURSIVE AdapterEdits(_, _)
AdapterEdits(targets, k) ==
    IF k > Len(targets) THEN <<>>
    ELSE (IF targets[k].items = <<>> \/ ~transform(targets[k].items).ok
          THEN <<>>
          ELSE << [ range |-> targets[k].range,
                    content |-> build(transform(targets[k].items).items) ] >>)
         \o AdapterEdits(targets, k + 1)

\* The targets with items on which transform fails.
FailedTargets(targets) ==
    { k \in 1..Len(targets) :
        targets[k].items # <<>> /\ ~transform(targets[k].items).ok }

\* The adapter's edits are the specified ones, in extraction order.
AdapterEditsAsSpecified ==
    \A k \in 1..Len(passlog) :
        passlog[k].pass = StructuredPassName =>
            passlog[k].edits = AdapterEdits(passlog[k].targets, 1)

\* The Error diagnostics of an iteration that are not the engine's conflict
\* diagnostic.
PassErrorDiagnostics(k) ==
    { j \in 1..Len(passlog[k].added) :
        /\ passlog[k].added[j].severity = "Error"
        /\ passlog[k].added[j].message.text
             # "Conflicting edits detected between ranges {:?} and {:?}" }

\* C13 as claimed: the adapter returns the specified edits and there is one
\* Error diagnostic for every target whose transform failed.
C13_Original_TransformFailureIsDiagnosed ==
    /\ AdapterEditsAsSpecified
    /\ \A k \in 1..Len(passlog) :
         passlog[k].pass = StructuredPassName =>
            Cardinality(PassErrorDiagnostics(k))
                = Cardinality(FailedTargets(passlog[k].targets))

\* Some edit of the list has a range that reaches past the end of text.
ReachesPastEnd(edits, text) ==
    \E k \in 1..Len(edits) :
        edits[k].range[1] > Len(text) \/ edits[k].range[2] > Len(text)

\* What the pass about to run may return that reaches past the end of the
\* current source and passes normalisation.
FatalOutputs ==
    IF pc \in {"passes", "panicked"} /\ index < Len(pipeline)
    THEN { out \in PassOutputs(pipeline[index + 1], state.source) :
             /\ ReachesPastEnd(out.edits, state.source)
             /\ ~FailsNormalization(out.edits) }
    ELSE {}

\* After a panic nothing is returned for the file and no later pass ran.
PanicEndsTheCall ==
    pc = "panicked" =>
        /\ ret.tag = "Panic"
        /\ ret.outcomes = <<>>
        /\ Len(outcomes) = i
        /\ Len(reports) = i
        /\ Len(passlog) = index
        /\ diagnostics = AllAdded(Len(passlog))

\* C14 as claimed: a pass iteration that emitted an edit reaching past the
\* end of the source it ran on never completes: it is fatal, and is not
\* turned into a diagnostic.
C14_Original_PastEndIsAlwaysFatal ==
    /\ \A k \in 1..Len(passlog) :
         ~ReachesPastEnd(passlog[k].edits, passlog[k].input)
    /\ PanicEndsTheCall

\* C14, amended: an edit list with an edit reaching past the end of the
\* current source is fatal when it passes normalisation (the run panics,
\* nothing is returned for the file, no later pass runs); when it fails
\* normalisation the pass is rejected with the conflict diagnostic instead,
\* the source is left as it was and the run goes on.
C14_PastEndIsFatalUnlessConflict ==
    /\ \A k \in 1..Len(passlog) :
         ReachesPastEnd(passlog[k].edits, passlog[k].input) =>
            /\ FailsNormalization(passlog[k].edits)
            /\ passlog[k].result = "conflict"
            /\ passlog[k].output = passlog[k].input
    /\ \A out \in FatalOutputs :
         run_pass(state, diagnostics, index, out).result = "panic"
    /\ PanicEndsTheCall

\* The run panicked on a source of one byte, where the pass could return an
\* edit in range together with one reaching past the end.
C14_Witness ==
    /\ pc = "panicked"
    /\ state.source = <<"a">>
    /\ \E out \in FatalOutputs :
         /\ Len(out.edits) = 2
         /\ out.edits[1].range = <<0, 1>>
         /\ out.edits[2].range = <<1, 2>>
         /\ run_pass(state, diagnostics, index, out).result = "panic"

\* What the pass at index may have returned that made the run panic.
PanickingOutputs ==
    IF pc = "panicked"
    THEN { out \in PassOutputs(pipeline[index + 1], state.source) :
             run_pass(state, diagnostics, index, out).result = "panic" }
    ELSE {}

\* C15 as claimed: a run panics only on an edit list with an edit whose
\* range reaches past the end of the current source; every other list is
\* applied or rejected with the conflict diagnostic.
C15_Original_PanicsOnlyPastEnd ==
    /\ \A out \in PanickingOutputs : ReachesPastEnd(out.edits, state.source)
    /\ \A k \in 1..Len(passlog) :
         /\ passlog[k].result \in {"empty", "applied", "conflict"}
         /\ passlog[k].result = "conflict" =>
               \E j \in 1..Len(passlog[k].added) :
                  IsConflictDiagnostic(passlog[k].added[j], passlog[k].index,
                                       passlog[k].edits)

RECURSIVE PipelineOutput(_, _)
PipelineOutput(st, idx) ==
    IF idx >= Len(pipeline) THEN Some(st.source)
    ELSE LET out == CHOOSE o \in PassOutputs(pipeline[idx + 1], st.source) : TRUE
             r   == run_pass(st, <<>>, idx, out)
         IN  IF r.result = "panic" THEN None ELSE PipelineOutput(r.state, idx + 1)

\* Running the pipeline on the text changes nothing.
IsFixedPoint(text) ==
    PipelineOutput(Parser_parse(ParseState_new(text)), 0) = Some(text)

\* The pipeline reached a fixed point on every file of the first call.
ReachedFixedPoint ==
    \A k \in 1..Len(calls[1].reports) : IsFixedPoint(calls[1].reports[k].final_source)

\* C17: after a format_and_write that returned Ok with a pipeline that
\* reached a fixed point on every file, check on what the paths hold on
\* disk does not panic and gives one outcome per path, each with changed
\* false and no diff.
C17_CheckAfterWriteIsUnchanged ==
    (calls # <<>> /\ calls[1].mode = "format_and_write" /\ ReachedFixedPoint) =>
        /\ mode = "check"
        /\ Len(codes) = Len(files)
        /\ \A k \in 1..Len(codes) : codes[k] = disk[files[k]]
        /\ pc # "panicked"
        /\ \A k \in 1..Len(outcomes) :
              ~outcomes[k].changed /\ outcomes[k].diff = None
        /\ pc = "returned" =>
              /\ ret.tag = "Ok"
              /\ Len(ret.outcomes) = Len(files)
              /\ \A k \in 1..Len(ret.outcomes) :
                    /\ ~ret.outcomes[k].changed
                    /\ ret.outcomes[k].path = Some(files[k])

\* format_and_write rewrote a file and left another as it was; check on
\* what was written returned both unchanged.
C17_Witness ==
    /\ calls # <<>>
    /\ calls[1].mode = "format_and_write"
    /\ ReachedFixedPoint
    /\ pc = "returned"
    /\ Len(ret.outcomes) = 2
    /\ calls[1].ret.outcomes[1].changed
    /\ ~calls[1].ret.outcomes[2].changed
    /\ files[1] # files[2]
    /\ codes[1] = calls[1].reports[1].final_source
    /\ codes[1] # calls[1].codes[1]
    /\ ~ret.outcomes[1].changed
    /\ ~ret.outcomes[2].changed

\* No pass of the log returned an edit.
AllPassesEmpty == \A k \in 1..Len(passlog) : passlog[k].edits = <<>>

\* C18: as long as every pass run on a file returned no edit, the parse
\* state is the one the initial parse left (same source, one parse); when
\* the file finishes so, its outcome has changed false and no diff, its
\* final source is its code, and no write was made for it.
C18_NoEditsNoEffect ==
    /\ (pc = "passes" /\ AllPassesEmpty) =>
          /\ state = Parser_parse(ParseState_new(codes[i + 1]))
          /\ state.tree[1].parses = 1
          /\ WrittenFor(i + 1) = {}
    /\ (JustFinished /\ AllPassesEmpty) =>
          /\ ~outcomes[i].changed
          /\ outcomes[i].diff = None
          /\ reports[i].final_source = codes[i]
          /\ state = Parser_parse(ParseState_new(codes[i]))
          /\ state.tree[1].parses = 1
          /\ WrittenFor(i) = {}

\* format_and_write rewrote and wrote the first file; both passes returned
\* no edit for the second, which has a path and was not written.
C18_Witness ==
    /\ mode = "format_and_write"
    /\ JustFinished
    /\ i = 2
    /\ Len(passlog) = 2
    /\ AllPassesEmpty
    /\ Len(files) = 2
    /\ ~outcomes[2].changed
    /\ outcomes[2].path = Some(files[2])
    /\ outcomes[1].changed
    /\ Len(writes) = 1
    /\ writes[1].file = 0
    /\ state.tree[1].parses = 1

\* Two edits of the list have the same range.
HasIdenticalRanges(edits) ==
    \E a, b \in 1..Len(edits) : a # b /\ edits[a].range = edits[b].range

\* Two edits of the list have the same range, and it is not empty.
HasIdenticalNonEmptyRanges(edits) ==
    \E a, b \in 1..Len(edits) :
        a # b /\ edits[a].range = edits[b].range /\ edits[a].range[1] < edits[a].range[2]

\* The iteration was rejected with one conflict diagnostic and applied
\* nothing.
RejectedAsConflict(k) ==
    /\ passlog[k].result = "conflict"
    /\ Cardinality({ j \in 1..Len(passlog[k].added) :
            IsConflictDiagnostic(passlog[k].added[j], passlog[k].index,
                                 passlog[k].edits) }) = 1
    /\ passlog[k].output = passlog[k].input

\* C19 as claimed: a pass that emitted two edits with identical ranges is
\* rejected with a conflict diagnostic and none of its edits is applied.
C19_Original_IdenticalRangesConflict ==
    \A k \in 1..Len(passlog) :
        HasIdenticalRanges(passlog[k].edits) => RejectedAsConflict(k)

\* C19, amended: a pass that emitted two edits with the same non-empty
\* range (start < end) is rejected with a conflict diagnostic and none of
\* its edits is applied, and it never panics; two edits with the same
\* zero-width range and nothing else are accepted and applied.
C19_IdenticalNonEmptyRangesConflict ==
    /\ \A k \in 1..Len(passlog) :
         /\ HasIdenticalNonEmptyRanges(passlog[k].edits) => RejectedAsConflict(k)
         /\ ( /\ Len(passlog[k].edits) = 2
              /\ passlog[k].edits[1].range = passlog[k].edits[2].range
              /\ passlog[k].edits[1].range[1] = passlog[k].edits[1].range[2] )
            => ( /\ passlog[k].result = "applied"
                 /\ \A j \in 1..Len(passlog[k].added) :
                       ~IsConflictDiagnostic(passlog[k].added[j], passlog[k].index,
                                             passlog[k].edits) )
    /\ \A out \in PanickingOutputs : ~HasIdenticalNonEmptyRanges(out.edits)

\* A pass gave two replacements for the same byte of a text of three bytes
\* and was rejected; the next pass ran on the text as it was.
C19_Witness ==
    /\ Len(passlog) = 2
    /\ passlog[1].input = <<"a", "\n", "b">>
    /\ Len(passlog[1].edits) = 2
    /\ passlog[1].edits[1].range = <<1, 2>>
    /\ passlog[1].edits[2].range = <<1, 2>>
    /\ passlog[1].edits[1].content # passlog[1].edits[2].content
    /\ RejectedAsConflict(1)
    /\ passlog[2].input = passlog[1].input

\* Every edit of the list is an insertion: start = end.
AllZeroWidth(edits) ==
    edits # <<>> /\ \A k \in 1..Len(edits) : edits[k].range[1] = edits[k].range[2]

\* The edits of the list that start at byte p, in list order.
StartingAt(edits, p) == SelectSeq(edits, LAMBDA e : e.range[1] = p)

RECURSIVE TotalContent(_)
TotalContent(edits) ==
    IF edits = <<>> THEN 0 ELSE Len(Head(edits).content) + TotalContent(Tail(edits))

\* C20: a list of zero-width edits passes normalisation, also with several
\* at one offset, and when it is in range it is applied: every insertion
\* is in the text, those at one offset in the order they were emitted.
\* Normalisation leaves any list sorted by start, the edits of equal start
\* in their emission order.  Zero-width edits in range never panic.
C20_ZeroWidthEditsAccepted ==
    /\ \A k \in 1..Len(passlog) :
         LET emitted    == passlog[k].edits
             normalized == normalize_edits(emitted)
         IN  /\ AllZeroWidth(emitted) =>
                   /\ normalized.conflict = None
                   /\ passlog[k].result = "applied"
                   /\ passlog[k].output = ReplaceAll(passlog[k].input, emitted)
                   /\ Len(passlog[k].output)
                        = Len(passlog[k].input) + TotalContent(emitted)
             /\ Len(normalized.edits) = Len(emitted)
             /\ \A j \in 1..(Len(emitted) - 1) :
                   normalized.edits[j].range[1] <= normalized.edits[j + 1].range[1]
             /\ \A j \in 1..Len(emitted) :
                   StartingAt(normalized.edits, emitted[j].range[1])
                     = StartingAt(emitted, emitted[j].range[1])
    /\ \A out \in PanickingOutputs :
         AllZeroWidth(out.edits) => ReachesPastEnd(out.edits, state.source)

\* Two insertions at offset 1 of a text of three bytes were accepted and
\* both applied.
C20_Witness ==
    \E k \in 1..Len(passlog) :
        /\ passlog[k].input = <<"a", "\n", "b">>
        /\ Len(passlog[k].edits) = 2
        /\ passlog[k].edits[1] = Edit_new(<<1, 1>>, <<"X">>)
        /\ passlog[k].edits[2] = Edit_new(<<1, 1>>, <<"X">>)
        /\ normalize_edits(passlog[k].edits).conflict = None
        /\ passlog[k].result = "applied"
        /\ passlog[k].output = <<"a", "X", "X", "\n", "b">>

\* C21: a pipeline is empty when created; after n add_pass calls len() is
\* n, is_empty() is (n = 0) and passes() lists the passes handed to add_pass
\* in call order: none removed, none moved.
C21_PipelineAppendOnly ==
    pc = "building" =>
        /\ Pipeline_len(pipeline) = Len(added)
        /\ Pipeline_is_empty(pipeline) = (Len(added) = 0)
        /\ Pipeline_passes(pipeline) = added
        /\ added = <<>> => pipeline = <<>>

\* Three different passes were added, the last one twice; passes() lists
\* them in that order.
C21_Witness ==
    /\ pc = "building"
    /\ added = <<"BtoA", "AtoB", "Insert", "Insert">>
    /\ Pipeline_passes(pipeline) = <<"BtoA", "AtoB", "Insert", "Insert">>
    /\ Pipeline_len(pipeline) = 4
    /\ ~Pipeline_is_empty(pipeline)

\* How many times x is in the sequence.
Count(seq, x) == Cardinality({ j \in 1..Len(seq) : seq[j] = x })

\* The adjacent pairs (j, j + 1) of the list whose first edit ends past the
\* start of the second.
ConflictingPairs(sorted) ==
    { j \in 1..(Len(sorted) - 1) : sorted[j].range[2] > sorted[j + 1].range[1] }

\* The least number of a non-empty set of numbers.
Least(S) == CHOOSE x \in S : \A y \in S : x <= y

\* C22: normalisation leaves the emitted edits, all of them, in ascending
\* order of start; it reports a conflict exactly when some adjacent pair of
\* that order has the first ending past the start of the second, and the
\* pair reported is the first such pair; the engine rejects the pass then,
\* naming that pair, and applies the edits otherwise.
C22_NormalizeSortsAndFindsFirstOverlap ==
    \A k \in 1..Len(passlog) :
        LET emitted    == passlog[k].edits
            normalized == normalize_edits(emitted)
            sorted     == normalized.edits
            pairs      == ConflictingPairs(sorted)
        IN  /\ Len(sorted) = Len(emitted)
            /\ \A j \in 1..Len(emitted) : Count(sorted, emitted[j]) = Count(emitted, emitted[j])
            /\ \A j \in 1..(Len(sorted) - 1) : sorted[j].range[1] <= sorted[j + 1].range[1]
            /\ (normalized.conflict # None) = (pairs # {})
            /\ pairs # {} =>
                  /\ normalized.conflict[1].first = sorted[Least(pairs)].range
                  /\ normalized.conflict[1].second = sorted[Least(pairs) + 1].range
                  /\ passlog[k].result = "conflict"
                  /\ \E j \in 1..Len(passlog[k].added) :
                        passlog[k].added[j].message.args
                            = <<sorted[Least(pairs)].range, sorted[Least(pairs) + 1].range>>
            /\ (pairs = {} /\ emitted # <<>>) => passlog[k].result = "applied"

\* Three edits emitted out of order, with two overlapping pairs once
\* sorted: the first pair is the one reported.
C22_Witness ==
    \E k \in 1..Len(passlog) :
        LET sorted == normalize_edits(passlog[k].edits).edits
        IN  /\ Len(passlog[k].edits) = 3
            /\ passlog[k].edits[1].range = <<1, 2>>
            /\ passlog[k].edits[2].range = <<0, 1>>
            /\ passlog[k].edits[3].range = <<0, 2>>
            /\ Cardinality(ConflictingPairs(sorted)) = 2
            /\ passlog[k].result = "conflict"
            /\ passlog[k].added[1].message.args = << <<0, 1>>, <<0, 2>> >>

\* The state has a tree, made from the bytes now in source.
TreeMatchesSource(st) == has_tree(st) /\ st.tree[1].text = st.source

\* C23: in every state in which a pass is invoked, and when the run of a
\* file ends, the parse state has a tree and the tree was produced, by
\* parse or reparse, from the text now in source: no edit was applied since.
C23_TreeDescribesSource ==
    /\ pc = "passes" => TreeMatchesSource(state)
    /\ JustFinished =>
          /\ TreeMatchesSource(state)
          /\ state.source = reports[i].final_source

\* The second pass is about to be invoked after the first rewrote the text
\* with two edits: the tree was reparsed from the new text.
C23_Witness ==
    /\ pc = "passes"
    /\ index = 1
    /\ Len(pipeline) = 2
    /\ Len(passlog) = 1
    /\ passlog[1].result = "applied"
    /\ Len(passlog[1].edits) = 2
    /\ passlog[1].output # passlog[1].input
    /\ state.source = passlog[1].output
    /\ state.tree[1].text = passlog[1].output
    /\ state.tree[1].parses = 4

\* The 0-based indices of the bytes that follow a newline of the text.
AfterNewlines(text) == { j \in 1..Len(text) : text[j] = "\n" }

\* The offsets index the text as specified: it starts with 0, is strictly
\* increasing, and holds 0 and the byte index after each newline, no more.
IsCanonicalIndex(offsets, text) ==
    /\ Len(offsets) >= 1
    /\ offsets[1] = 0
    /\ \A k \in 1..(Len(offsets) - 1) : offsets[k] < offsets[k + 1]
    /\ { offsets[k] : k \in 1..Len(offsets) } = {0} \cup AfterNewlines(text)

\* C24: after ParseState::new and after any sequence of replace_range
\* calls, line_offsets is the canonical index of the current source, and
\* every entry after the first is the first byte of a line.
C24_LineOffsetsCanonical ==
    pc = "state" =>
        /\ IsCanonicalIndex(state.line_offsets, state.source)
        /\ state.line_offsets = compute_line_offsets(state.source)
        /\ \A k \in 2..Len(state.line_offsets) :
              state.source[state.line_offsets[k]] = "\n"

\* replace_range calls put a newline in front of a text of two lines: the
\* index has three lines, all moved.
C24_Witness ==
    /\ pc = "state"
    /\ original_source = <<"a", "\n", "b">>
    /\ state.source = <<"\n", "a", "\n", "b">>
    /\ state.line_offsets = <<0, 1, 3>>

\* C25 as claimed: the engine's edits go through ParseState::replace_range,
\* so whenever a pass has been run the line index of the parse state is the
\* canonical index of the source it now holds.
C25_Original_AppliedEditsKeepLineIndex ==
    pc \in {"passes", "files", "returned"} =>
        /\ IsCanonicalIndex(state.line_offsets, state.source)
        /\ \A k \in 1..Len(passlog) :
              passlog[k].result = "applied" =>
                 state.line_offsets = compute_line_offsets(passlog[k].output)

\* The 0-based index of the last entry of the index that is <= b.
LineOf(offsets, b) ==
    CHOOSE row \in 0..(Len(offsets) - 1) :
        /\ offsets[row + 1] <= b
        /\ \A later \in (row + 1)..(Len(offsets) - 1) : offsets[later + 1] > b

\* C26: for every byte offset, also past the end of the source,
\* byte_to_point gives for the offset clamped to the length of the source
\* the last line that starts at or before it and the distance from the
\* start of that line; the start of a line is column 0 of that line.
C26_ByteToPointRowColumn ==
    pc = "state" =>
        \A byte \in 0..(MaxLen + 1) :
            LET b     == Min(byte, Len(state.source))
                point == byte_to_point(state, byte)
            IN  /\ point.row = LineOf(state.line_offsets, b)
                /\ point.column = b - state.line_offsets[point.row + 1]
                /\ (\E k \in 1..Len(state.line_offsets) : state.line_offsets[k] = b)
                      => (point.column = 0 /\ state.line_offsets[point.row + 1] = b)
                /\ point = byte_to_point(state, b)

\* On a text of three lines: a byte inside a line, the first byte of the
\* last line, and an offset past the end.
C26_Witness ==
    /\ pc = "state"
    /\ state.source = <<"\n", "a", "\n", "b">>
    /\ byte_to_point(state, 2) = Point(1, 1)
    /\ byte_to_point(state, 3) = Point(2, 0)
    /\ byte_to_point(state, 5) = Point(2, 1)

\* The InputEdit of the claim for one apply_edit call: positions from
\* byte_to_point, the first two on the state before the text is replaced,
\* the last on the state after.
SpecifiedInputEdit(call) ==
    LET start_byte   == call.edit.start_byte
        old_end_byte == call.edit.old_end_byte
        new_end_byte == start_byte + (Len(call.after.source)
                                      - (Len(call.before.source)
                                         - (old_end_byte - start_byte)))
    IN  [ start_byte       |-> start_byte,
          old_end_byte     |-> old_end_byte,
          new_end_byte     |-> new_end_byte,
          start_position   |-> byte_to_point(call.before, start_byte),
          old_end_position |-> byte_to_point(call.before, old_end_byte),
          new_end_position |-> byte_to_point(call.after, new_end_byte) ]

\* C27 (as stated): every apply_edit call notifies the tree with
\* start_position and old_end_position computed by byte_to_point on the
\* state before the text is replaced, new_end_byte = start_byte + the length
\* of new_text, and new_end_position computed by byte_to_point on the state
\* after; on a text of several lines the rows are the real line numbers.
C27_Original_TreeEditUsesByteToPoint ==
    \A k \in 1..Len(passlog) :
        \A n \in 1..Len(passlog[k].notified) :
            passlog[k].notified[n].edit = SpecifiedInputEdit(passlog[k].notified[n])

\* C28 (as stated): the diagnostics of a file are those of its passes in
\* pipeline order, and for a pass that conflicts the diagnostics the pass
\* pushed come first, followed by the conflict diagnostic of the engine.
C28_Original_PushedPrecedeConflict ==
    /\ \A k \in 1..Len(passlog) :
         passlog[k].result = "conflict" =>
            LET a == passlog[k].added
                p == passlog[k].pushed
            IN  /\ Len(a) = Len(p) + 1
                /\ \A j \in 1..Len(p) : SamePushed(a[j], p[j])
                /\ IsConflictDiagnostic(a[Len(a)], passlog[k].index, passlog[k].edits)
    /\ JustFinished => outcomes[i].diagnostics = AllAdded(Len(passlog))

\* Every list holding the edits of the given list in some order.
Reorderings(edits) ==
    LET n == Len(edits)
    IN  { [ j \in 1..n |-> edits[f[j]] ] :
            f \in { g \in [1..n -> 1..n] : \A a, b \in 1..n : a # b => g[a] # g[b] } }

Accepted(edits) == normalize_edits(edits).conflict = None

\* C29 (as stated): whether normalisation accepts the edits of a pass does
\* not depend on the order the pass emitted them in: every reordering of an
\* emitted list is accepted exactly when the list is.
C29_Original_AcceptanceIgnoresOrder ==
    \A k \in 1..Len(passlog) :
        /\ (passlog[k].result = "conflict") = ~Accepted(passlog[k].edits)
        /\ \A other \in Reorderings(passlog[k].edits) :
              Accepted(other) = Accepted(passlog[k].edits)

\* The number (from 1) of the file whose write failed.
FailedAt == writes[Len(writes)].file + 1

\* The files below the one whose write failed that were changed and have a
\* path, by their number (from 1).
ChangedBelowFailure ==
    { j \in 1..(FailedAt - 1) : reports[j].final_source # codes[j] /\ j <= Len(files) }

\* C30 (as stated): when a write fails at file k, every changed file with a
\* path below k has been overwritten with its final source and its path
\* still holds that source when the call returns; no outcome is returned.
C30_Original_EarlierFilesStayWritten ==
    (pc = "returned" /\ ret.tag = "Err") =>
        /\ ret.outcomes = <<>>
        /\ \A j \in ChangedBelowFailure :
              /\ \E w \in 1..(Len(writes) - 1) :
                    /\ writes[w].ok
                    /\ writes[w].file = j - 1
                    /\ writes[w].path = files[j]
                    /\ writes[w].content = reports[j].final_source
              /\ disk[files[j]] = reports[j].final_source

\* C30: when a write fails at file k, every changed file with a path below
\* k has been overwritten with its final source, and its path still holds
\* that source when the call returns unless a later write of the call, the
\* failed one included, was to the same path; no outcome is returned.
C30_EarlierFilesWrittenOnError ==
    (pc = "returned" /\ ret.tag = "Err") =>
        /\ ret.outcomes = <<>>
        /\ ~writes[Len(writes)].ok
        /\ \A j \in ChangedBelowFailure :
              \E w \in 1..(Len(writes) - 1) :
                  /\ writes[w].ok
                  /\ writes[w].file = j - 1
                  /\ writes[w].path = files[j]
                  /\ writes[w].content = reports[j].final_source
                  /\ (\A later \in (w + 1)..Len(writes) : writes[later].path # files[j])
                        => disk[files[j]] = reports[j].final_source
        /\ \A p \in Paths :
              (\A w \in 1..Len(writes) : writes[w].path # p) => disk[p] = InitDisk(codes, files)[p]

\* The write of the second file failed; the first file, changed, is on the
\* disk with its final source under a path of its own, and the caller got
\* no outcome.
C30_Witness ==
    /\ pc = "returned"
    /\ ret.tag = "Err"
    /\ ret.outcomes = <<>>
    /\ FailedAt = 2
    /\ ChangedBelowFailure = {1}
    /\ files[1] # files[2]
    /\ disk[files[1]] = reports[1].final_source
    /\ disk[files[1]] # codes[1]

====
